---- MODULE Spec2Model ----
(***************************************************************************)
(* Model of agimus_sot.task.pre_grasp.PreGrasp: the builder that wires a   *)
(* FeaturePose, a SotTask and a SafeGainAdaptive out of a gripper frame, a *)
(* handle frame and an optional second (otherGripper, otherHandle) grasp,  *)
(* followed by the control cycles in which the wired signals are evaluated.*)
(*                                                                         *)
(* Rigid transforms are kept symbolic: a pose is a reduced word of the     *)
(* free group over named letters (one letter per local offset lMf and per  *)
(* sample of an external signal).  Product is concatenation with           *)
(* cancellation, inverse is reversal with every letter inverted, so two    *)
(* signal expressions evaluate to the same word only if they are the same  *)
(* transform for every choice of the underlying matrices.                  *)
(***************************************************************************)
EXTENDS Naturals, Sequences, FiniteSets, TLC

VARIABLES
    gripper,        \* self.gripper (an OpFrame record)
    handle,         \* self.handle
    otherGripper,   \* self.otherGripper (None when no other grasp)
    otherHandle,    \* self.otherHandle
    ctor,           \* the arguments __init__ was called with
    call,           \* the arguments of the makeTasks call (None before it)
    pc,             \* "init" | "done" | "failed"
    error,          \* the exception makeTasks raised, NoError when it returned
    strategy,       \* the _make* method makeTasks dispatched to
    swapped,        \* TRUE once line 91 exchanged gripper and handle
    feature,        \* self.feature: the FeaturePose and what its inputs are plugged to
    task,           \* self.task
    gain,           \* self.gain
    tasks,          \* self.tasks
    faMfbDes,       \* self.faMfbDes: the matrixHomoProduct entity of _referenceSignal
    entities,       \* names of the dynamic-graph entities created so far
    opPoints,       \* operational points created on sotrobot.dynamic
    hppTopics,      \* planner (HPP joint) topics registered on the task
    tfTopics,       \* TF listener topics registered on the task
    log,            \* what was printed, in order
    env,            \* the external signals sampled in the current control cycle
    ncalls          \* number of makeTasks calls made so far in the process

vars == <<gripper, handle, otherGripper, otherHandle, ctor, call, pc, error,
          strategy, swapped, feature, task, gain, tasks, faMfbDes, entities, opPoints,
          hppTopics, tfTopics, log, env, ncalls>>

\* Number of distinct samples an external signal can take in a control cycle.
NumSamples == 2
\* Number of makeTasks calls made over one entity registry.
MaxCalls == 2

None == [absent |-> TRUE]

Robots == {"r1", "r2"}
Links == {"l1", "l2"}
\* The other gripper is a tool of the controlled robot, on a link of its own.
OtherGripperLinks == {"arm"}
OtherGripperRobots == {"r1"}

\* The sotrobot argument of makeTasks: the camera frame and the size of the
\* configuration vector are all the builder reads from it besides signals.
sotrobot == [camera_frame |-> "camera", dimension |-> 7]

----------------------------------------------------------------------------
(* Poses: reduced words of the free group.                                 *)

Letter(src, key, ver) == [src |-> src, key |-> key, ver |-> ver, inv |-> FALSE]
InvLetter(l) == [l EXCEPT !.inv = ~l.inv]

Identity == <<>>

Front(w) == SubSeq(w, 1, Len(w) - 1)

RECURSIVE Mul(_, _)
\* the product a * b of two reduced words, reduced
Mul(a, b) ==
    IF a = <<>> \/ b = <<>> THEN a \o b
    ELSE IF a[Len(a)] = InvLetter(b[1]) THEN Mul(Front(a), Tail(b))
    ELSE a \o b

\* pinocchio SE3.inverse()
Inverse(w) == [i \in 1..Len(w) |-> InvLetter(w[Len(w) + 1 - i])]

RECURSIVE Product(_)
\* the product of a sequence of words, left to right
Product(ws) == IF ws = <<>> THEN Identity ELSE Mul(ws[1], Product(Tail(ws)))

----------------------------------------------------------------------------
(* OpFrame: the gripper and handle descriptions handed to the constructor. *)

OpFrame(name, robotName, link, enabled, controllable) ==
    [name |-> name, robotName |-> robotName, link |-> link,
     lMf |-> <<Letter("lMf", name, 0)>>,
     enabled |-> enabled, controllable |-> controllable]

fullName(f) == f.robotName \o "/" \o f.name
fullLink(f) == f.robotName \o "/" \o f.link

GripperFrames ==
    {OpFrame("g", r, l, e, c) : r \in Robots, l \in Links, e \in BOOLEAN, c \in BOOLEAN}
\* a handle may sit on a body of the controlled robot: when the roles are
\* exchanged it is read as the gripper
HandleFrames ==
    {OpFrame("h", r, l, TRUE, c) : r \in Robots, l \in Links, c \in BOOLEAN}
OtherGripperFrames ==
    {OpFrame("og", r, l, e, c) :
        r \in OtherGripperRobots, l \in OtherGripperLinks, e \in BOOLEAN, c \in BOOLEAN}
OtherHandleFrames ==
    {OpFrame("oh", r, l, TRUE, FALSE) : r \in Robots, l \in Links}

----------------------------------------------------------------------------
(* Signals.  What an input signal of an entity is plugged to, kept as an   *)
(* expression that every control cycle evaluates against the sampled       *)
(* external signals.                                                       *)

Unset == [k |-> "unset"]
\* a constant value written with  signal.value = ...
Const(w) == [k |-> "const", v |-> w]
\* sotrobot.dynamic.signal(name): the kinematic pose of an operational point
Kin(name) == [k |-> "kin", name |-> name]
\* sotrobot.dynamic.signal("J" + name): the kinematic Jacobian of the point
Jac(name) == [k |-> "J", name |-> name]
\* np.zeros((rows, cols))
Zeros(rows, cols) == [k |-> "zeros", rows |-> rows, cols |-> cols]
\* the value the planner publishes on an HPP joint topic
Hpp(topic) == [k |-> "hpp", topic |-> topic]
\* the transform a TF listener topic measures
Tf(topic) == [k |-> "tf", topic |-> topic]
\* the output of a matrixHomoProduct entity over its inputs, in order
Prod(args) == [k |-> "prod", args |-> args]
\* the output of a matrixHomoInverse entity
Inv(arg) == [k |-> "inv", arg |-> arg]
\* the output of an entityIfMatrixHomo entity whose condition is the validity
\* flag of a TF listener topic
If(cond, then_, else_) == [k |-> "if", cond |-> cond, then_ |-> then_, else_ |-> else_]

\* The external signals of one control cycle: which sample every kinematic,
\* planner and measured signal shows, and which TF topics hold a valid
\* measurement.
Sample(src, key, e) == <<Letter(src, key, e.ver)>>

RECURSIVE Eval(_, _)
\* the pose an expression delivers in the cycle whose external signals are e
Eval(x, e) ==
    CASE x.k = "const" -> x.v
      [] x.k = "kin"   -> Sample("kin", x.name, e)
      [] x.k = "hpp"   -> Sample("hpp", x.topic, e)
      [] x.k = "tf"    -> Sample("tf", x.topic, e)
      [] x.k = "inv"   -> Inverse(Eval(x.arg, e))
      [] x.k = "prod"  -> Product([i \in 1..Len(x.args) |-> Eval(x.args[i], e)])
      [] x.k = "if"    -> IF x.cond \in e.valid THEN Eval(x.then_, e) ELSE Eval(x.else_, e)

\* the matrix a Jacobian input delivers in the cycle whose signals are e
EvalJ(x, e) ==
    CASE x.k = "J"     -> [J |-> x.name, ver |-> e.ver]
      [] x.k = "zeros" -> [zeros |-> <<x.rows, x.cols>>]
      [] OTHER         -> Unset

----------------------------------------------------------------------------
(* The builder.  Every helper takes the mutable part b of the builder      *)
(* (feature, task, gain, tasks, faMfbDes and the registries the calls      *)
(* write to) and returns it as the call leaves it.                         *)

name_prefix == "pregrasp"
meas_suffix == "_measured"

RECURSIVE Join(_)
Join(parts) ==
    IF Len(parts) = 1 THEN parts[1] ELSE parts[1] \o "_" \o Join(Tail(parts))

\* Task._name: the entity name made of the prefix and the given parts
_name(parts) == Join(<<name_prefix>> \o parts)

\* FeaturePose(name): a feature none of whose inputs is set yet
FeaturePose(name) ==
    [name |-> name, oMja |-> Unset, jaJja |-> Unset, jaMfa |-> Unset,
     oMjb |-> Unset, jbJjb |-> Unset, jbMfb |-> Unset, faMfbDes |-> Unset]

\* an entity of the dynamic graph, registered under its name
Entity(type, name) == [type |-> type, name |-> name]

\* _createOpPoint(sotrobot, name)
_createOpPoint(b, name) == [b EXCEPT !.opPoints = @ \cup {name}]

\* Task.addHppJointTopic(topicName): registers the planner topic once
addHppJointTopic(b, topicName) == [b EXCEPT !.hppTopics = @ \cup {topicName}]

\* Task.addTfListenerTopic(topicName, frame0, frame1, signalGetters)
addTfListenerTopic(b, topicName, frame0, frame1) ==
    [b EXCEPT !.tfTopics = @ \cup
        {[name |-> topicName, frame0 |-> frame0, frame1 |-> frame1]}]

\* Task.makeTfListenerDefaultValue(name, value, outputs): the measured
\* transform of the topic while it is valid, the given value otherwise
makeTfListenerDefaultValue(topicName, value) ==
    If(topicName, Tf(topicName), Const(value))

\* RobotLinkMeasured with value_then and value_else exchanged
RobotLinkMeasuredInverted(linkName) ==
    LET linkNameMeas == linkName \o meas_suffix
        oMl == Prod(<<Kin(sotrobot.camera_frame), Tf(linkNameMeas)>>)
    IN  If(linkNameMeas, Kin(linkName), oMl)

\* what _plugRobotLink plugs to poseSignal when withMeasurement is set
\* (lines 105-120): camera pose * measurement while the topic is valid, the
\* kinematic pose of the link otherwise
RobotLinkMeasured(linkName) ==
    LET linkNameMeas == linkName \o meas_suffix
        oMl == Prod(<<Kin(sotrobot.camera_frame), Tf(linkNameMeas)>>)
    IN  If(linkNameMeas, oMl, Kin(linkName))

_plugRobotLink(b, linkName, poseSignal, Jsignal, withMeasurement) ==
    LET linkNameMeas == linkName \o meas_suffix
        b1 == IF withMeasurement
              THEN LET c1 == _createOpPoint(b, sotrobot.camera_frame)
                       c2 == [c1 EXCEPT !.entities = @ \cup
                                {Entity("MatrixHomoProduct", linkNameMeas \o "_wrt_world"),
                                 Entity("IfMatrixHomo", linkNameMeas \o "_wrt_world_safe")}]
                       c3 == addTfListenerTopic(c2, linkNameMeas,
                                sotrobot.camera_frame, linkNameMeas)
                   IN  [c3 EXCEPT !.feature[poseSignal] = RobotLinkMeasured(linkName)]
              ELSE [b EXCEPT !.feature[poseSignal] = Kin(linkName),
                             !.log = Append(@, "Plug robot link: no measument for "
                                                \o linkName)]
    IN  IF Jsignal # "None"
        THEN [b1 EXCEPT !.feature[Jsignal] = Jac(linkName)]
        ELSE b1

\* what _plugObjectLink plugs to outSignal when withMeasurement is set
\* (lines 135-154): camera pose * measurement while the topic is valid, the
\* planner's pose of the link otherwise
ObjectLinkMeasured(linkName) ==
    LET linkNameMeas == linkName \o meas_suffix
        oMl == Prod(<<Kin(sotrobot.camera_frame), Tf(linkNameMeas)>>)
    IN  If(linkNameMeas, oMl, Hpp(linkName))

_plugObjectLink(b, linkName, outSignal, withMeasurement) ==
    LET linkNameMeas == linkName \o meas_suffix
    IN  IF withMeasurement
        THEN LET c1 == _createOpPoint(b, sotrobot.camera_frame)
                 c2 == [c1 EXCEPT !.entities = @ \cup
                          {Entity("MatrixHomoProduct", linkNameMeas \o "_wrt_world"),
                           Entity("IfMatrixHomo", linkNameMeas \o "wrt_world")}]
                 c3 == addTfListenerTopic(c2, linkNameMeas,
                          sotrobot.camera_frame, linkNameMeas)
                 c4 == addHppJointTopic(c3, linkName)
             IN  [c4 EXCEPT !.feature[outSignal] = ObjectLinkMeasured(linkName)]
        ELSE [b EXCEPT !.log = Append(@, "Plug object link: no measument for "
                                          \o linkName),
                       !.feature[outSignal] = Hpp(linkName)]

\* ReferenceFactors with the first two factors in the other order
ReferenceFactorsReordered(gr, ha) ==
    <<Inv(Hpp(fullLink(gr))), Const(Inverse(gr.lMf)), Hpp(fullLink(ha)), Const(ha.lMf)>>

\* the four factors of the matrixHomoProduct entity faMfbDes, in order
ReferenceFactors(gr, ha) ==
    <<Const(Inverse(gr.lMf)),       \* jgMg^-1
      Inv(Hpp(fullLink(gr))),       \* oMjg^-1 -> HPP joint
      Hpp(fullLink(ha)),            \* oMlh -> HPP joint
      Const(ha.lMf)>>               \* lhMh

_referenceSignal(b, name, gr, ha) ==
    LET c1 == addHppJointTopic(b, fullLink(gr))
    IN  [c1 EXCEPT !.entities = @ \cup {Entity("MatrixHomoInverse", name \o "_oMjaDes_inv"),
                                         Entity("MatrixHomoProduct", name \o "_faMfbDes")},
                   !.faMfbDes = Prod(ReferenceFactors(gr, ha))]

\* the arguments of SafeGainAdaptive.computeParameters, as written
GainParameters == <<"0.9", "0.1", "0.3", "1.">>

\* _createTaskAndGain with the two plugs the wrong way round
_createTaskAndGainCrossed(b, name) ==
    LET taskName == name \o "_task"
        gainName == name \o "_gain"
    IN  [b EXCEPT
            !.task = [name |-> taskName,
                      features |-> <<b.feature.name>>,
                      controlGain |-> [entity |-> taskName, signal |-> "error"],
                      withDerivative |-> Unset],
            !.gain = [name |-> gainName,
                      parameters |-> GainParameters,
                      error |-> [entity |-> gainName, signal |-> "gain"]],
            !.entities = @ \cup {Entity("SotTask", taskName),
                                  Entity("SafeGainAdaptive", gainName)}]

_createTaskAndGain(b, name) ==
    LET taskName == name \o "_task"
        gainName == name \o "_gain"
    IN  [b EXCEPT
            !.task = [name |-> taskName,
                      features |-> <<b.feature.name>>,
                      controlGain |-> [entity |-> gainName, signal |-> "gain"],
                      withDerivative |-> Unset],
            !.gain = [name |-> gainName,
                      parameters |-> GainParameters,
                      error |-> [entity |-> taskName, signal |-> "error"]],
            !.entities = @ \cup {Entity("SotTask", taskName),
                                  Entity("SafeGainAdaptive", gainName)}]

NotImplemented == "Relative pose constraint with derivative is not implemented yet."

\* derivativeTail passing the flag on to the task
derivativeTailTracking(b, withDerivative) ==
    LET c1 == IF withDerivative THEN [b EXCEPT !.log = Append(@, NotImplemented)] ELSE b
    IN  [c1 EXCEPT !.task.withDerivative = withDerivative, !.tasks = <<c1.task.name>>]

\* the end of each _make* method: the warning, setWithDerivative(False) and
\* the task list
derivativeTail(b, withDerivative) ==
    LET c1 == IF withDerivative THEN [b EXCEPT !.log = Append(@, NotImplemented)] ELSE b
    IN  [c1 EXCEPT !.task.withDerivative = FALSE, !.tasks = <<c1.task.name>>]

----------------------------------------------------------------------------
(* The three strategies.  Each returns [error, b]: error names the         *)
(* exception the method raised, if any, and b is the builder as the method *)
(* left it.                                                                *)

NoError == "None"
AssertionError == "AssertionError"
\* what assertEntityDoesNotExist raises
EntityExists == "EntityExists"

\* sameBody with the link assertion left out
sameBodyRobotOnly(ha, oh) == ha.robotName = oh.robotName

\* the two assertions that open _makeRelativeTask and _makeAbsoluteBasedOnOther
sameBody(ha, oh) ==
    /\ ha.robotName = oh.robotName
    /\ ha.link = oh.link

\* assertEntityDoesNotExist(name)
entityDoesNotExist(b, name) == \A e \in b.entities : e.name # name

\* StaticOffset assuming ogMoh = Id, the other handle's offset left out
StaticOffsetIdentityGrasp(og, oh, ha) == Mul(og.lMf, ha.lMf)

\* ogMoh * ohMo * oMh: the planned offset from the other gripper to the handle
StaticOffset(og, oh, ha) == Product(<<og.lMf, Inverse(oh.lMf), ha.lMf>>)

ZeroJacobian == Zeros(6, sotrobot.dimension)

_makeAbsolute(b, gr, ha, withMeasurementOfObjectPos, withMeasurementOfGripperPos, withDerivative) ==
    LET name == _name(<<gr.name, fullName(ha)>>)
        c0 == [b EXCEPT !.feature = FeaturePose(name \o "_feature"),
                        !.entities = @ \cup {Entity("FeaturePose", name \o "_feature")}]
        c1 == _createOpPoint(c0, gr.link)
        c2 == _plugRobotLink(c1, gr.link, "oMja", "jaJja", withMeasurementOfGripperPos)
        c3 == [c2 EXCEPT !.feature.jaMfa = Const(gr.lMf)]
        c4 == addHppJointTopic(c3, fullLink(ha))
        c5 == _plugObjectLink(c4, fullLink(ha), "oMjb", withMeasurementOfObjectPos)
        c6 == [c5 EXCEPT !.feature.jbMfb = Const(ha.lMf),
                         !.feature.jbJjb = ZeroJacobian]
        c7 == _referenceSignal(c6, name, gr, ha)
        c8 == [c7 EXCEPT !.feature.faMfbDes = c7.faMfbDes]
        c9 == _createTaskAndGain(c8, name)
    IN  IF ~entityDoesNotExist(b, name \o "_feature")
        THEN [error |-> EntityExists, b |-> b]
        ELSE [error |-> NoError, b |-> derivativeTail(c9, withDerivative)]

_makeRelativeTask(b, gr, ha, og, oh, withMeasurementOfObjectPos, withMeasurementOfGripperPos, withMeasurementOfOtherGripperPos, withDerivative) ==
    LET name == _name(<<gr.name, fullName(ha), "relative", og.name, fullName(oh)>>)
        c0 == [b EXCEPT !.feature = FeaturePose(name \o "_feature"),
                        !.entities = @ \cup {Entity("FeaturePose", name \o "_feature")}]
        c1 == _createOpPoint(_createOpPoint(c0, gr.link), og.link)
        \* Joint A is the gripper link
        c2 == _plugRobotLink(c1, gr.link, "oMja", "jaJja", withMeasurementOfGripperPos)
        c3 == [c2 EXCEPT !.feature.jaJja = ZeroJacobian,
                         !.feature.jaMfa = Const(gr.lMf)]
        \* Joint B is the other gripper link
        c4 == _plugRobotLink(c3, og.link, "oMjb", "jbJjb",
                             withMeasurementOfOtherGripperPos)
        c5 == [c4 EXCEPT !.feature.jbJjb = ZeroJacobian]
        \* method == 3
        c6 == addHppJointTopic(
                [c5 EXCEPT !.feature.jbMfb = Const(StaticOffset(og, oh, ha))],
                fullLink(ha))
        c7 == _referenceSignal(c6, name, gr, ha)
        c8 == [c7 EXCEPT !.feature.faMfbDes = c7.faMfbDes]
        c9 == _createTaskAndGain(c8, name)
    IN  IF ~sameBody(ha, oh) THEN [error |-> AssertionError, b |-> b]
        ELSE IF ~entityDoesNotExist(b, name \o "_feature")
        THEN [error |-> EntityExists, b |-> b]
        ELSE [error |-> NoError, b |-> derivativeTail(c9, withDerivative)]

\* the TF topic of the other handle measured in the other gripper's frame
OtherGraspTopic(og, oh) ==
    fullLink(oh) \o meas_suffix \o "_wrt_" \o og.link \o meas_suffix

\* what _makeAbsoluteBasedOnOther plugs to feature.jbMfb (method == 1)
JbMfbBasedOnOther(og, oh, ha, withMeasurementOfOtherGripperPos) ==
    IF withMeasurementOfOtherGripperPos
    THEN \* jbMfb = ogMo * oMh, ogMo from TF with the planned grasp as default
         Prod(<<makeTfListenerDefaultValue(OtherGraspTopic(og, oh),
                    Mul(og.lMf, Inverse(oh.lMf))),
                Const(ha.lMf)>>)
    ELSE \* jbMfb = ogMw(q) * wMc(q) * cMo (measured) * oMh while measured
         LET topic == fullLink(oh) \o meas_suffix
             ogMo == Prod(<<Inv(Kin(og.link)), Kin(sotrobot.camera_frame),
                            Tf(topic), Const(ha.lMf)>>)
         IN  If(topic, ogMo, Const(StaticOffset(og, oh, ha)))

_makeAbsoluteBasedOnOther(b, gr, ha, og, oh, withMeasurementOfObjectPos, withMeasurementOfGripperPos, withMeasurementOfOtherGripperPos, withDerivative) ==
    LET name == _name(<<fullName(gr), fullName(ha), "based", og.name, fullName(oh)>>)
        c0 == [b EXCEPT !.feature = FeaturePose(name \o "_feature"),
                        !.entities = @ \cup {Entity("FeaturePose", name \o "_feature")}]
        c1 == _createOpPoint(c0, og.link)
        \* Joint A is the gripper link
        c2 == addHppJointTopic(c1, fullLink(gr))
        c3 == _plugObjectLink(c2, fullLink(gr), "oMja", withMeasurementOfGripperPos)
        c4 == [c3 EXCEPT !.feature.jaMfa = Const(gr.lMf),
                         !.feature.jaJja = ZeroJacobian]
        \* Joint B is the other gripper link
        c5 == _plugRobotLink(c4, og.link, "oMjb", "jbJjb",
                             withMeasurementOfOtherGripperPos)
        \* Frame B is the handle frame
        c6 == [c5 EXCEPT !.feature.jbMfb =
                  JbMfbBasedOnOther(og, oh, ha, withMeasurementOfOtherGripperPos)]
        c7 == IF withMeasurementOfOtherGripperPos
              THEN addTfListenerTopic(
                     [c6 EXCEPT !.entities = @ \cup
                         {Entity("MatrixHomoProduct", name \o "_jbMfb"),
                          Entity("IfMatrixHomo", name \o "_defaultValue")}],
                     OtherGraspTopic(og, oh),
                     og.link \o meas_suffix, fullLink(oh) \o meas_suffix)
              ELSE addTfListenerTopic(
                     [c6 EXCEPT !.entities = @ \cup
                         {Entity("MatrixHomoProduct", name \o "_jbMfb_meas"),
                          Entity("MatrixHomoInverse", og.link \o "_inv"),
                          Entity("IfMatrixHomo", name \o "_jbMfb_cond")}],
                     fullLink(oh) \o meas_suffix,
                     sotrobot.camera_frame, fullLink(ha) \o meas_suffix)
        c8 == addHppJointTopic(c7, fullLink(ha))
        c9 == _referenceSignal(c8, name, gr, ha)
        c10 == [c9 EXCEPT !.feature.faMfbDes = c9.faMfbDes]
        c11 == _createTaskAndGain(c10, name)
    IN  IF ~sameBody(ha, oh) THEN [error |-> AssertionError, b |-> b]
        ELSE IF ~entityDoesNotExist(b, name \o "_feature")
        THEN [error |-> EntityExists, b |-> b]
        ELSE [error |-> NoError, b |-> derivativeTail(c11, withDerivative)]

----------------------------------------------------------------------------
(* makeTasks.                                                              *)

\* the two assertions that open makeTasks
enabledPrecondition(gr, og) ==
    /\ gr.enabled
    /\ og = None \/ og.enabled

\* Dispatch testing only that the other gripper is there, not that it is
\* controllable
DispatchOnPresence(gr, og) ==
    IF gr.controllable
    THEN IF og # None THEN "Relative" ELSE "Absolute"
    ELSE IF og # None THEN "AbsoluteBasedOnOther" ELSE "NoOp"

\* the branch makeTasks takes
Dispatch(gr, og) ==
    IF gr.controllable
    THEN IF og # None /\ og.controllable THEN "Relative" ELSE "Absolute"
    ELSE IF og # None /\ og.controllable THEN "AbsoluteBasedOnOther" ELSE "NoOp"

\* needsSwap without the test on the gripper's robot
needsSwapHandleOnly(gr, ha, oh) == ha.robotName # oh.robotName

\* the condition under which makeTasks exchanges gripper and handle
needsSwap(gr, ha, oh) ==
    /\ ha.robotName # oh.robotName
    /\ gr.robotName = oh.robotName

BothDisabled == "Both grippers are disabled so nothing can be done"

\* the last branch of makeTasks staying silent
_bothDisabledSilent(b) == b

\* the last branch of makeTasks
_bothDisabled(b) == [b EXCEPT !.log = Append(@, BothDisabled)]

\* makeTasks on the builder (gr, ha, og, oh, b): the builder as the call leaves it
makeTasks(gr, ha, og, oh, b, wObj, wGrip, wOther, wDeriv) ==
    LET keep == [error |-> AssertionError, strategy |-> "None", swapped |-> FALSE,
                 gripper |-> gr, handle |-> ha, b |-> b]
        s == Dispatch(gr, og)
    IN  IF ~enabledPrecondition(gr, og) THEN keep
        ELSE CASE s = "Relative" ->
                    LET r == _makeRelativeTask(b, gr, ha, og, oh,
                                               wObj, wGrip, wOther, wDeriv)
                    IN  [keep EXCEPT !.error = r.error, !.strategy = s, !.b = r.b]
               [] s = "Absolute" ->
                    LET r == _makeAbsolute(b, gr, ha, wObj, wGrip, wDeriv)
                    IN  [keep EXCEPT !.error = r.error, !.strategy = s, !.b = r.b]
               [] s = "AbsoluteBasedOnOther" ->
                    LET sw == needsSwap(gr, ha, oh)
                        b1 == IF sw
                              THEN [b EXCEPT !.log = Append(@,
                                      "swapping gripper " \o fullName(gr)
                                      \o " and handle " \o fullName(ha))]
                              ELSE b
                        g1 == IF sw THEN ha ELSE gr
                        h1 == IF sw THEN gr ELSE ha
                        r == _makeAbsoluteBasedOnOther(b1, g1, h1, og, oh,
                                               wObj, wGrip, wOther, wDeriv)
                    IN  [error |-> r.error, strategy |-> s, swapped |-> sw,
                         gripper |-> g1, handle |-> h1, b |-> r.b]
               [] s = "NoOp" ->
                    [keep EXCEPT !.error = NoError, !.strategy = s, !.b = _bothDisabled(b)]

----------------------------------------------------------------------------
(* The state machine.                                                      *)

builder == [feature |-> feature, task |-> task, gain |-> gain, tasks |-> tasks,
            faMfbDes |-> faMfbDes, entities |-> entities, opPoints |-> opPoints,
            hppTopics |-> hppTopics, tfTopics |-> tfTopics, log |-> log]

\* Task.__init__: a task that holds nothing yet
TaskInit ==
    /\ tasks = <<>>
    /\ hppTopics = {}
    /\ tfTopics = {}

\* PreGrasp.__init__ on every admissible (gripper, handle, otherGraspOnObject)
Init ==
    /\ gripper \in GripperFrames
    /\ handle \in HandleFrames
    /\ \/ otherGripper = None /\ otherHandle = None
       \/ otherGripper \in OtherGripperFrames /\ otherHandle \in OtherHandleFrames
    /\ ctor = [gripper |-> gripper, handle |-> handle,
               otherGripper |-> otherGripper, otherHandle |-> otherHandle]
    /\ TaskInit
    /\ call = None
    /\ pc = "init"
    /\ error = NoError
    /\ strategy = "None"
    /\ swapped = FALSE
    /\ feature = None
    /\ task = None
    /\ gain = None
    /\ faMfbDes = None
    /\ entities = {}
    /\ opPoints = {}
    /\ log = <<>>
    /\ env = None
    /\ ncalls = 0

\* one call self.makeTasks(sotrobot, wObj, wGrip, wOther, wDeriv) on the builder
\* as it is now
CallMakeTasks(wObj, wGrip, wOther, wDeriv) ==
    LET r == makeTasks(gripper, handle, otherGripper, otherHandle, builder,
                       wObj, wGrip, wOther, wDeriv)
    IN  /\ call' = [withMeasurementOfObjectPos |-> wObj,
                    withMeasurementOfGripperPos |-> wGrip,
                    withMeasurementOfOtherGripperPos |-> wOther,
                    withDerivative |-> wDeriv]
        /\ pc' = IF r.error = NoError THEN "done" ELSE "failed"
        /\ error' = r.error
        /\ strategy' = r.strategy
        /\ swapped' = r.swapped
        /\ gripper' = r.gripper
        /\ handle' = r.handle
        /\ feature' = r.b.feature
        /\ task' = r.b.task
        /\ gain' = r.b.gain
        /\ tasks' = r.b.tasks
        /\ faMfbDes' = r.b.faMfbDes
        /\ entities' = r.b.entities
        /\ opPoints' = r.b.opPoints
        /\ hppTopics' = r.b.hppTopics
        /\ tfTopics' = r.b.tfTopics
        /\ log' = r.b.log
        /\ ncalls' = ncalls + 1
        /\ UNCHANGED <<otherGripper, otherHandle, ctor, env>>

\* the single makeTasks call of a freshly constructed builder
MakeTasks ==
    /\ pc = "init"
    /\ \E wObj \in BOOLEAN, wGrip \in BOOLEAN, wOther \in BOOLEAN, wDeriv \in BOOLEAN :
          CallMakeTasks(wObj, wGrip, wOther, wDeriv)

TfNames == {t.name : t \in tfTopics}

\* One control cycle of the scheduler: the external signals take new samples
\* and every TF topic is valid or not; the plugged signals are then read
\* through Eval and EvalJ.
Cycle ==
    /\ pc = "done"
    /\ \E ver \in 1..NumSamples, valid \in SUBSET TfNames :
          env' = [ver |-> ver, valid |-> valid]
    /\ UNCHANGED <<gripper, handle, otherGripper, otherHandle, ctor, call, pc,
                   error, strategy, swapped, feature, task, gain, tasks, faMfbDes,
                   entities, opPoints, hppTopics, tfTopics, log, ncalls>>

Next == MakeTasks \/ Cycle

Spec == Init /\ [][Next]_vars

----------------------------------------------------------------------------
(* Several builds over one entity registry: makeTasks may be called again  *)
(* on a builder whose previous call returned, and further builders may be  *)
(* constructed in the same process; the dynamic-graph entities and the     *)
(* operational points of the robot outlive every builder.                  *)

\* The frames of these builds: enabled, and on one link, so that every call
\* passes the assertions on its arguments.
SharedLinks == {"l1"}
SharedGripperFrames == {f \in GripperFrames : f.enabled /\ f.link \in SharedLinks}
SharedHandleFrames == {f \in HandleFrames : f.link \in SharedLinks}
SharedOtherGripperFrames == {f \in OtherGripperFrames : f.enabled}
SharedOtherHandleFrames == {f \in OtherHandleFrames : f.link \in SharedLinks}

\* the flags of the calls: every measurement or none, with and without derivative
SharedFlags == {<<m, m, m, d>> : m \in BOOLEAN, d \in BOOLEAN}

\* PreGrasp.__init__: the attributes of a new builder
Construct(gr, ha, og, oh) ==
    /\ gripper' = gr
    /\ handle' = ha
    /\ otherGripper' = og
    /\ otherHandle' = oh
    /\ ctor' = [gripper |-> gr, handle |-> ha, otherGripper |-> og, otherHandle |-> oh]
    /\ tasks' = <<>>
    /\ hppTopics' = {}
    /\ tfTopics' = {}
    /\ call' = None
    /\ pc' = "init"
    /\ error' = NoError
    /\ strategy' = "None"
    /\ swapped' = FALSE
    /\ feature' = None
    /\ task' = None
    /\ gain' = None
    /\ faMfbDes' = None
    /\ log' = <<>>

InitShared ==
    /\ gripper \in SharedGripperFrames
    /\ handle \in SharedHandleFrames
    /\ \/ otherGripper = None /\ otherHandle = None
       \/ otherGripper \in SharedOtherGripperFrames
          /\ otherHandle \in SharedOtherHandleFrames
    /\ ctor = [gripper |-> gripper, handle |-> handle,
               otherGripper |-> otherGripper, otherHandle |-> otherHandle]
    /\ TaskInit
    /\ call = None
    /\ pc = "init"
    /\ error = NoError
    /\ strategy = "None"
    /\ swapped = FALSE
    /\ feature = None
    /\ task = None
    /\ gain = None
    /\ faMfbDes = None
    /\ entities = {}
    /\ opPoints = {}
    /\ log = <<>>
    /\ env = None
    /\ ncalls = 0

\* makeTasks called on a builder: the first time, or again after a call that
\* returned (an exception ends the set-up)
MakeTasksAgain ==
    /\ pc \in {"init", "done"}
    /\ ncalls < MaxCalls
    /\ \E f \in SharedFlags : CallMakeTasks(f[1], f[2], f[3], f[4])

\* another PreGrasp constructed in the same process
NewBuilder ==
    /\ pc = "done"
    /\ ncalls < MaxCalls
    /\ \E gr \in SharedGripperFrames, ha \in SharedHandleFrames :
          \/ Construct(gr, ha, None, None)
          \/ \E og \in SharedOtherGripperFrames, oh \in SharedOtherHandleFrames :
                Construct(gr, ha, og, oh)
    /\ UNCHANGED <<entities, opPoints, env, ncalls>>

NextShared == MakeTasksAgain \/ NewBuilder

SpecShared == InitShared /\ [][NextShared]_vars

----------------------------------------------------------------------------
(* Properties.                                                             *)

Called == call # None
Built == pc = "done" /\ strategy \in {"Absolute", "Relative", "AbsoluteBasedOnOther"}
OtherPresent == ctor.otherGripper # None
OtherControllable == OtherPresent /\ ctor.otherGripper.controllable
\* the makeTasks call passed the two assertions on enabled
PassedEnabled ==
    /\ Called
    /\ ctor.gripper.enabled
    /\ ~OtherPresent \/ ctor.otherGripper.enabled

\* the decision table of the strategies
StrategyTable(gripperControllable, otherControllable) ==
    CASE gripperControllable /\ ~otherControllable  -> "Absolute"
      [] gripperControllable /\ otherControllable   -> "Relative"
      [] ~gripperControllable /\ otherControllable  -> "AbsoluteBasedOnOther"
      [] ~gripperControllable /\ ~otherControllable -> "NoOp"

\* C1: for every builder whose gripper is enabled (and whose otherGripper, if
\* present, is enabled), the strategy makeTasks dispatches to is the one the
\* table gives for (gripper.controllable, otherGripper present and
\* controllable), whatever the measurement and derivative flags, the robot
\* names and the links are.
C1_StrategyFollowsTable ==
    PassedEnabled =>
        strategy = StrategyTable(ctor.gripper.controllable, OtherControllable)

\* C1 witness: the Relative branch taken in a call with every flag set.
C1_Witness ==
    /\ PassedEnabled
    /\ strategy = "Relative"
    /\ call.withMeasurementOfObjectPos /\ call.withMeasurementOfGripperPos
    /\ call.withMeasurementOfOtherGripperPos /\ call.withDerivative

\* C2: a makeTasks call that passes the assertions on enabled, with
\* gripper.controllable false and otherGripper absent or not controllable,
\* returns without error, reports that both grippers are disabled, leaves the
\* task list empty and creates no feature, no task, no gain and no entity.
C2_NoOpBuildsNothing ==
    (PassedEnabled /\ ~ctor.gripper.controllable /\ ~OtherControllable) =>
        /\ pc = "done" /\ error = NoError
        /\ log = <<BothDisabled>>
        /\ tasks = <<>>
        /\ feature = None /\ task = None /\ gain = None
        /\ entities = {}

\* C2 witness: the call returned in the NoOp branch with an other gripper that
\* is present but not controllable.
C2_Witness ==
    /\ PassedEnabled /\ pc = "done"
    /\ ~ctor.gripper.controllable /\ OtherPresent /\ ~OtherControllable

\* C3: whenever makeTasks dispatches to Relative or AbsoluteBasedOnOther, the
\* call fails with an assertion error, before anything is built, exactly when
\* handle and otherHandle (the roles after any swap) differ in robot name or
\* in link.
C3_SameBodyAsserted ==
    (Called /\ strategy \in {"Relative", "AbsoluteBasedOnOther"}) =>
        /\ (error = AssertionError) <=>
              ~(handle.robotName = otherHandle.robotName
                /\ handle.link = otherHandle.link)
        /\ error = AssertionError => pc = "failed" /\ feature = None /\ tasks = <<>>
        /\ error # AssertionError => pc = "done" /\ feature # None

\* C3 witness: after the swap made the robot names agree, the links differ and
\* the assertion fails.
C3_Witness ==
    /\ strategy = "AbsoluteBasedOnOther" /\ swapped
    /\ handle.robotName = otherHandle.robotName
    /\ handle.link # otherHandle.link
    /\ error = AssertionError

RolesExchanged == gripper = ctor.handle /\ handle = ctor.gripper
RolesKept == gripper = ctor.gripper /\ handle = ctor.handle

\* C4: the roles of gripper and handle are exchanged exactly when makeTasks
\* takes the branch gripper not controllable / otherGripper controllable with
\* handle.robotName # otherHandle.robotName and gripper.robotName =
\* otherHandle.robotName (all read before the exchange); they are kept
\* otherwise; and a strategy built after the exchange has frame A on the
\* original handle and the original gripper as the handle of the reference.
C4_SwapExactlyWhen ==
    /\ RolesExchanged <=>
          /\ PassedEnabled
          /\ ~ctor.gripper.controllable /\ OtherControllable
          /\ ctor.handle.robotName # ctor.otherHandle.robotName
          /\ ctor.gripper.robotName = ctor.otherHandle.robotName
    /\ RolesExchanged \/ RolesKept
    /\ RolesExchanged <=> swapped
    /\ (RolesExchanged /\ pc = "done") =>
          /\ strategy = "AbsoluteBasedOnOther"
          /\ feature.jaMfa = Const(ctor.handle.lMf)
          /\ feature.oMja \in {Hpp(fullLink(ctor.handle)),
                               ObjectLinkMeasured(fullLink(ctor.handle))}
          /\ feature.faMfbDes.args[3] = Hpp(fullLink(ctor.gripper))
          /\ feature.faMfbDes.args[4] = Const(ctor.gripper.lMf)

\* C4 witness: the roles were exchanged and AbsoluteBasedOnOther was built.
C4_Witness == RolesExchanged /\ pc = "done" /\ strategy = "AbsoluteBasedOnOther"

InCycle == Built /\ env # None
InLog(m) == \E i \in 1..Len(log) : log[i] = m
\* the signals of the current cycle
KinNow(name) == <<Letter("kin", name, env.ver)>>
HppNow(topic) == <<Letter("hpp", topic, env.ver)>>
TfNow(topic) == <<Letter("tf", topic, env.ver)>>

\* C5 as stated: the desired relative pose is
\* gripper.lMf^-1 * oMja^-1 * oMjbDesired * handle.lMf with oMja the pose of the
\* gripper's link from the kinematic model and oMjbDesired the planner's pose
\* of handle.fullLink.
C5_AsStated ==
    InCycle =>
        Eval(feature.faMfbDes, env) =
            Mul(Mul(Mul(Inverse(gripper.lMf), Inverse(KinNow(gripper.link))),
                    HppNow(fullLink(handle))),
                handle.lMf)

\* C5 amended: for every strategy that builds a task, the desired relative
\* pose wired into the feature is, in this order,
\* gripper.lMf^-1 * oMja^-1 * oMjbDesired * handle.lMf, where oMja is the pose
\* the planner publishes for gripper.fullLink and oMjbDesired the pose it
\* publishes for handle.fullLink; the kinematic model is not read.
C5_ReferenceFromPlanner ==
    InCycle =>
        /\ Eval(feature.faMfbDes, env) =
              Mul(Mul(Mul(Inverse(gripper.lMf), Inverse(HppNow(fullLink(gripper)))),
                      HppNow(fullLink(handle))),
                  handle.lMf)
        /\ feature.faMfbDes = faMfbDes
        /\ {fullLink(gripper), fullLink(handle)} \subseteq hppTopics

\* C5 witness: a cycle of a built Relative task.
C5_Witness == InCycle /\ strategy = "Relative" /\ env.ver = NumSamples

\* otherGripper.lMf * otherHandle.lMf^-1 * handle.lMf
PlannedGraspOffset == Mul(Mul(otherGripper.lMf, Inverse(otherHandle.lMf)), handle.lMf)

\* C6 as stated: in Relative and in AbsoluteBasedOnOther, jbMfb is the
\* constant otherGripper.lMf * otherHandle.lMf^-1 * handle.lMf in every cycle.
C6_AsStated ==
    (InCycle /\ strategy \in {"Relative", "AbsoluteBasedOnOther"}) =>
        Eval(feature.jbMfb, env) = PlannedGraspOffset

\* the TF topic AbsoluteBasedOnOther measures the other grasp with
JbMfbTopic ==
    IF call.withMeasurementOfOtherGripperPos
    THEN fullLink(otherHandle) \o "_measured_wrt_" \o otherGripper.link \o "_measured"
    ELSE fullLink(otherHandle) \o "_measured"

\* C6 amended: in Relative, jbMfb is set at build time to the constant
\* otherGripper.lMf * otherHandle.lMf^-1 * handle.lMf and has that value in
\* every cycle, whatever the flags and the measurements; in
\* AbsoluteBasedOnOther it has that value only in the cycles whose TF
\* measurement of the other handle is not valid, and is computed from the
\* measurement in the cycles where it is valid.
C6_StaticOnlyInRelative ==
    /\ (Built /\ strategy = "Relative") =>
          /\ feature.jbMfb = Const(PlannedGraspOffset)
          /\ env # None => Eval(feature.jbMfb, env) = PlannedGraspOffset
    /\ (InCycle /\ strategy = "AbsoluteBasedOnOther") =>
          /\ JbMfbTopic \in TfNames
          /\ JbMfbTopic \notin env.valid =>
                Eval(feature.jbMfb, env) = PlannedGraspOffset
          /\ JbMfbTopic \in env.valid =>
                Eval(feature.jbMfb, env) =
                    IF call.withMeasurementOfOtherGripperPos
                    THEN Mul(TfNow(JbMfbTopic), handle.lMf)
                    ELSE Mul(Mul(Mul(Inverse(KinNow(otherGripper.link)),
                                     KinNow(sotrobot.camera_frame)),
                                 TfNow(JbMfbTopic)),
                             handle.lMf)

\* C6 witness: a cycle of AbsoluteBasedOnOther in which the measurement of the
\* other handle is valid.
C6_Witness ==
    /\ InCycle /\ strategy = "AbsoluteBasedOnOther"
    /\ JbMfbTopic \in env.valid

\* C7 as stated: after a successful build jaJja and jbJjb are the kinematic
\* Jacobian of the frame's link when the frame is on a controllable body and
\* the 6 x dimension zero matrix when it is fixed.
C7_AsStated ==
    Built =>
        CASE strategy = "Absolute" ->
                /\ feature.jaJja = Jac(gripper.link)
                /\ feature.jbJjb = Zeros(6, sotrobot.dimension)
          [] strategy = "AbsoluteBasedOnOther" ->
                /\ feature.jaJja = Zeros(6, sotrobot.dimension)
                /\ feature.jbJjb = Jac(otherGripper.link)
          [] strategy = "Relative" ->
                /\ feature.jaJja = Jac(gripper.link)
                /\ feature.jbJjb = Jac(otherGripper.link)

\* The part of C7 about Absolute and AbsoluteBasedOnOther; in Relative both
\* inputs end as the zero matrix.
C7_OutsideRelative ==
    Built =>
        CASE strategy = "Absolute" ->
                /\ feature.jaJja = Jac(gripper.link)
                /\ feature.jbJjb = Zeros(6, sotrobot.dimension)
          [] strategy = "AbsoluteBasedOnOther" ->
                /\ feature.jaJja = Zeros(6, sotrobot.dimension)
                /\ feature.jbJjb = Jac(otherGripper.link)
          [] strategy = "Relative" ->
                /\ feature.jaJja = Zeros(6, sotrobot.dimension)
                /\ feature.jbJjb = Zeros(6, sotrobot.dimension)

\* C8: a makeTasks call that passes its assertions builds the task in each of
\* the three strategies whether withDerivative is set or not, leaves the task
\* with derivative tracking off, and records the ``not implemented'' warning
\* exactly when withDerivative is set.
C8_DerivativeOffWithWarning ==
    /\ (PassedEnabled /\ strategy \in {"Absolute", "Relative", "AbsoluteBasedOnOther"}
          /\ (strategy = "Absolute"
              \/ (handle.robotName = otherHandle.robotName
                  /\ handle.link = otherHandle.link))) =>
              pc = "done"
    /\ Built =>
          /\ task.withDerivative = FALSE
          /\ tasks = <<task.name>>
          /\ InLog("Relative pose constraint with derivative is not implemented yet.")
                <=> call.withDerivative

\* C8 witness: AbsoluteBasedOnOther built by a call with withDerivative set.
C8_Witness == Built /\ strategy = "AbsoluteBasedOnOther" /\ call.withDerivative

\* C9: every built task holds exactly the strategy's feature, there is exactly
\* one gain, with parameters (0.9, 0.1, 0.3, 1.) in that order, the gain's
\* output is plugged to the task's controlGain and the task's error to the
\* gain's error.
C9_TaskAndGainWiring ==
    Built =>
        /\ task.features = <<feature.name>>
        /\ {e \in entities : e.type = "SafeGainAdaptive"} =
              {[type |-> "SafeGainAdaptive", name |-> gain.name]}
        /\ {e \in entities : e.type = "SotTask"} =
              {[type |-> "SotTask", name |-> task.name]}
        /\ {e \in entities : e.type = "FeaturePose"} =
              {[type |-> "FeaturePose", name |-> feature.name]}
        /\ gain.parameters = <<"0.9", "0.1", "0.3", "1.">>
        /\ task.controlGain = [entity |-> gain.name, signal |-> "gain"]
        /\ gain.error = [entity |-> task.name, signal |-> "error"]

\* C9 witness: a built Absolute task.
C9_Witness == Built /\ strategy = "Absolute" /\ tasks # <<>>

\* camera pose * measurement of the topic, in the current cycle
MeasuredInWorld(topic) == Mul(KinNow(sotrobot.camera_frame), TfNow(topic))

\* the pose a source built with measurement must deliver in the current cycle
Selected(topic, default) ==
    IF topic \in env.valid THEN MeasuredInWorld(topic) ELSE default

\* C10: in every cycle, a pose input of the feature that was built with
\* measurement delivers the whole of camera pose * measurement when the
\* topic's validity condition holds and the whole of the default (the
\* kinematic pose for a robot link, the planner's pose for an object link)
\* when it does not.
C10_FallbackIsAtomic ==
    InCycle =>
        /\ (call.withMeasurementOfGripperPos /\ strategy \in {"Absolute", "Relative"}) =>
              Eval(feature.oMja, env) =
                  Selected(gripper.link \o "_measured", KinNow(gripper.link))
        /\ (call.withMeasurementOfGripperPos /\ strategy = "AbsoluteBasedOnOther") =>
              Eval(feature.oMja, env) =
                  Selected(fullLink(gripper) \o "_measured", HppNow(fullLink(gripper)))
        /\ (call.withMeasurementOfObjectPos /\ strategy = "Absolute") =>
              Eval(feature.oMjb, env) =
                  Selected(fullLink(handle) \o "_measured", HppNow(fullLink(handle)))
        /\ (call.withMeasurementOfOtherGripperPos
              /\ strategy \in {"Relative", "AbsoluteBasedOnOther"}) =>
              Eval(feature.oMjb, env) =
                  Selected(otherGripper.link \o "_measured", KinNow(otherGripper.link))

\* C10 witness: a cycle of an Absolute task built with both measurements, the
\* gripper's measurement valid and the object's not.
C10_Witness ==
    /\ InCycle /\ strategy = "Absolute"
    /\ call.withMeasurementOfGripperPos /\ call.withMeasurementOfObjectPos
    /\ (gripper.link \o "_measured") \in env.valid
    /\ (fullLink(handle) \o "_measured") \notin env.valid

----------------------------------------------------------------------------
(* Builds over one entity registry (SpecShared).                           *)

\* a step that is one makeTasks call
CallStep == ncalls' = ncalls + 1
\* the names registered in the dynamic graph
EntityNames == {e.name : e \in entities}
\* the builder has built a task with an earlier call
BuiltATask == pc = "done" /\ tasks # <<>>

\* C11: over any sequence of builds sharing one entity registry, (1) a call
\* that builds a strategy whose feature name is already registered fails with
\* the fatal error, and a call that ends with that error has created no
\* feature, task or gain; (2) a second makeTasks call on a builder that has
\* already built a task fails with that error; (3) a feature created by a
\* call carries a name no entity had before the call.
C11_AsStated ==
    [][CallStep =>
          /\ (error' = EntityExists) =>
                /\ entities' = entities
                /\ feature' = feature /\ task' = task /\ gain' = gain
                /\ tasks' = tasks
          /\ BuiltATask => (pc' = "failed" /\ error' = EntityExists)
          /\ (feature' # feature) => (feature'.name \notin EntityNames)
      ]_vars

\* The part of C11 that the code keeps: a call ending with the fatal error of
\* assertEntityDoesNotExist has created nothing, and a created feature has a
\* name that was free.
C11_ExistingNameIsFatal ==
    [][CallStep =>
          /\ (error' = EntityExists) =>
                /\ entities' = entities
                /\ feature' = feature /\ task' = task /\ gain' = gain
                /\ tasks' = tasks
          /\ (feature' # feature) => (feature'.name \notin EntityNames)
      ]_vars

\* With the roles as constructed, the second call on a builder that built a
\* task does fail with the fatal error.
C11_SecondCallFailsWhenRolesKept ==
    [][(CallStep /\ BuiltATask /\ RolesKept) =>
          (pc' = "failed" /\ error' = EntityExists)]_vars

\* The state C11 excludes: a builder whose first call exchanged the roles and
\* built AbsoluteBasedOnOther has, with its second call, built a Relative task
\* under another name, next to the entities of the first.
C11_SecondTaskBuilt ==
    /\ ncalls = 2 /\ pc = "done" /\ strategy = "Relative"
    /\ RolesExchanged
    /\ Cardinality({e \in entities : e.type = "FeaturePose"}) = 2

\* C12: when makeTasks aborts on a failed precondition assertion, the builder
\* is as it was before the call: no feature, task or gain, no entity, the task
\* list unchanged, and gripper and handle bound as at construction.
C12_AsStated ==
    (pc = "failed" /\ error = AssertionError) =>
        /\ feature = None /\ task = None /\ gain = None
        /\ tasks = <<>>
        /\ entities = {}
        /\ RolesKept

\* The part of C12 that the code keeps: nothing has been created and the task
\* list is unchanged.
C12_NothingCreated ==
    (pc = "failed" /\ error = AssertionError) =>
        /\ feature = None /\ task = None /\ gain = None
        /\ tasks = <<>>
        /\ entities = {}

====
